---------------------------- MODULE Spec2Model ----------------------------
(***************************************************************************)
(* Model of stdnum/it/aic.py: conversion and validation of Italian AIC     *)
(* codes in their base10 (9 digits) and base32 (6 symbols) forms.          *)
(*                                                                         *)
(* A Python string is a sequence of one-character strings.  A Python value *)
(* or the outcome of a call is a record tagged by its type: PyStr, PyInt,  *)
(* PyBool, None, or Raise(e) for a call that ended with exception e.       *)
(***************************************************************************)
EXTENDS Integers, Sequences, FiniteSets

VARIABLES arg, fn, out, prev

vars == <<arg, fn, out, prev>>

---------------------------------------------------------------------------
(* A local variable of the code: F applied to the value of v, with v       *)
(* evaluated once.                                                         *)
With(v, F(_)) == CHOOSE r \in { F(x) : x \in {v} } : TRUE

---------------------------------------------------------------------------
(* Python values *)

PyStr(s) == [t |-> "str", s |-> s]

PyInt(n) == [t |-> "int", n |-> n]

PyBool(b) == [t |-> "bool", b |-> b]

None == [t |-> "none"]

Raise(e) == [t |-> "raise", exc |-> e]

(* stdnum.exceptions: the kinds of ValidationError *)
ValidationError == {"InvalidFormat", "InvalidChecksum", "InvalidLength"}

---------------------------------------------------------------------------
(* Characters and the built-in string operations the module uses *)

AIC_TABLE == << "0", "1", "2", "3", "4", "5", "6", "7", "8", "9",
                "B", "C", "D", "F", "G", "H", "J", "K", "L", "M", "N",
                "P", "Q", "R", "S", "T", "U", "V", "W", "X", "Y", "Z" >>

ascii_lowercase == << "a", "b", "c", "d", "e", "f", "g", "h", "i", "j", "k", "l", "m",
                      "n", "o", "p", "q", "r", "s", "t", "u", "v", "w", "x", "y", "z" >>

ascii_uppercase == << "A", "B", "C", "D", "E", "F", "G", "H", "I", "J", "K", "L", "M",
                      "N", "O", "P", "Q", "R", "S", "T", "U", "V", "W", "X", "Y", "Z" >>

(* the characters str.strip() removes, among those of the model *)
whitespace == {" ", "\t"}

(* str.index / str.find on a table of characters, 0-based; -1 when absent *)
RECURSIVE find_from(_, _, _)
find_from(table, c, i) ==
    IF i > Len(table) THEN -1
    ELSE IF table[i] = c THEN i - 1
    ELSE find_from(table, c, i + 1)

find(table, c) == find_from(table, c, 1)

(* c in table *)
contains(table, c) == find(table, c) # -1

(* c.upper() for one character *)
upper(c) ==
    IF contains(ascii_lowercase, c)
    THEN ascii_uppercase[find(ascii_lowercase, c) + 1]
    ELSE c

(* s.upper() *)
upper_str(s) == [i \in 1..Len(s) |-> upper(s[i])]

(* s[::-1] *)
reversed(s) == [i \in 1..Len(s) |-> s[Len(s) + 1 - i]]

(* s.strip() *)
RECURSIVE lstrip(_)
lstrip(s) ==
    IF s # <<>> /\ Head(s) \in whitespace THEN lstrip(Tail(s)) ELSE s

strip(s) == reversed(lstrip(reversed(lstrip(s))))

(* str(n) for an integer n *)
RECURSIVE str_nat(_)
str_nat(n) ==
    IF n < 10 THEN << AIC_TABLE[n + 1] >>
    ELSE Append(str_nat(n \div 10), AIC_TABLE[(n % 10) + 1])

str(n) == IF n < 0 THEN << "-" >> \o str_nat(-n) ELSE str_nat(n)

(* s.zfill(width): zeros go after a leading sign *)
zeros(k) == [i \in 1..k |-> "0"]

zfill(s, width) ==
    IF Len(s) >= width THEN s
    ELSE IF s # <<>> /\ Head(s) \in {"+", "-"}
         THEN << Head(s) >> \o zeros(width - Len(s)) \o Tail(s)
         ELSE zeros(width - Len(s)) \o s

(* int(s) for a string: surrounding whitespace is ignored, one sign is     *)
(* allowed, the rest must be decimal digits.  The result is PyInt(n) or    *)
(* Raise("ValueError").  (Digit grouping with "_" is not modelled: the     *)
(* character is not among those of the model.)                             *)
RECURSIVE digits_value(_, _)
digits_value(s, acc) ==
    IF s = <<>> THEN acc
    ELSE digits_value(Tail(s), acc * 10 + find(SubSeq(AIC_TABLE, 1, 10), Head(s)))

all_digits(s) == \A i \in 1..Len(s) : contains(SubSeq(AIC_TABLE, 1, 10), s[i])

int_str(s) ==
    With(strip(s), LAMBDA body :
    With(body # <<>> /\ Head(body) \in {"+", "-"}, LAMBDA signed :
    With(IF signed THEN Tail(body) ELSE body, LAMBDA mag :
        IF mag = <<>> \/ ~all_digits(mag) THEN Raise("ValueError")
        ELSE IF signed /\ Head(body) = "-" THEN PyInt(-digits_value(mag, 0))
        ELSE PyInt(digits_value(mag, 0)))))

(* int(v) for a Python value *)
int(v) ==
    CASE v.t = "str" -> int_str(v.s)
      [] v.t = "int" -> v
      [] OTHER -> Raise("TypeError")

(* stdnum.util.clean(number, deletechars): number without the characters   *)
(* of deletechars                                                          *)
RECURSIVE clean(_, _)
clean(number, deletechars) ==
    IF number = <<>> THEN <<>>
    ELSE IF Head(number) \in deletechars THEN clean(Tail(number), deletechars)
    ELSE << Head(number) >> \o clean(Tail(number), deletechars)

---------------------------------------------------------------------------
(* The functions of aic.py *)

(* the loop of from_base32 over enumerate(string): the accumulated total,  *)
(* or -1 when AIC_TABLE.index raises ValueError                            *)
RECURSIVE pow32(_)
pow32(idx) == IF idx = 0 THEN 1 ELSE 32 * pow32(idx - 1)

RECURSIVE from_base32_loop(_, _, _)
from_base32_loop(string, idx, tot) ==
    IF idx >= Len(string) THEN tot
    ELSE With(find(AIC_TABLE, upper(string[idx + 1])), LAMBDA v :
             IF v = -1 THEN -1
             ELSE from_base32_loop(string, idx + 1,
                                   tot + (IF v = 0 THEN 0 ELSE v * pow32(idx))))

(* from_base32 without "string = string[::-1]" *)
from_base32_unreversed(string) ==
    With(from_base32_loop(string, 0, 0), LAMBDA tot :
        IF tot = -1 THEN Raise("InvalidFormat")
        ELSE PyStr(zfill(str(tot), 9)))

from_base32(string) ==
    With(from_base32_loop(reversed(string), 0, 0), LAMBDA tot :
        IF tot = -1 THEN Raise("InvalidFormat")
        ELSE PyStr(zfill(str(tot), 9)))

RECURSIVE to_base32_loop(_, _)
to_base32_loop(remainder, res) ==
    IF remainder > 31
    THEN to_base32_loop(remainder \div 32, Append(res, AIC_TABLE[(remainder % 32) + 1]))
    ELSE (* AIC_TABLE[remainder]: a negative index counts from the end *)
         IF remainder >= 0 THEN Append(res, AIC_TABLE[remainder + 1])
         ELSE IF remainder >= -32 THEN Append(res, AIC_TABLE[33 + remainder])
         ELSE << "IndexError" >>

(* to_base32 without "res = res[::-1]" *)
to_base32_unreversed(string) ==
    With(int(string), LAMBDA remainder :
        IF remainder.t = "raise" THEN remainder
        ELSE With(to_base32_loop(remainder.n, <<>>), LAMBDA res :
                 IF res = << "IndexError" >> THEN Raise("IndexError")
                 ELSE PyStr(zfill(res, 6))))

to_base32(string) ==
    With(int(string), LAMBDA remainder :
        IF remainder.t = "raise" THEN remainder
        ELSE With(to_base32_loop(remainder.n, <<>>), LAMBDA res :
                 IF res = << "IndexError" >> THEN Raise("IndexError")
                 ELSE PyStr(zfill(reversed(res), 6))))

(* the weights starting with 2 *)
weights_from_two == << 2, 1, 2, 1, 2, 1, 2, 1 >>

weights == << 1, 2, 1, 2, 1, 2, 1, 2 >>

Min(a, b) == IF a < b THEN a ELSE b

(* sum((x // 10) + (x % 10) for x in (w * int(n) for w, n in zip(weights, aic)))  *)
(* over the first k pairs of the zip; -1 when an int(n) raises ValueError  *)
(* the sum with x % 10 alone, the tens digit of a product dropped *)
RECURSIVE folded_sum_units(_, _)
folded_sum_units(aic, k) ==
    IF k = 0 THEN 0
    ELSE With(folded_sum_units(aic, k - 1), LAMBDA rest :
         With(int_str(<< aic[k] >>), LAMBDA n :
             IF rest = -1 \/ n.t = "raise" THEN -1
             ELSE With(weights[k] * n.n, LAMBDA x : rest + (x % 10))))

RECURSIVE folded_sum(_, _)
folded_sum(aic, k) ==
    IF k = 0 THEN 0
    ELSE With(folded_sum(aic, k - 1), LAMBDA rest :
         With(int_str(<< aic[k] >>), LAMBDA n :
             IF rest = -1 \/ n.t = "raise" THEN -1
             ELSE With(weights[k] * n.n, LAMBDA x : rest + (x \div 10) + (x % 10))))

calc_check_digit(aic) ==
    With(folded_sum(aic, Min(Len(weights), Len(aic))), LAMBDA total :
        IF total = -1 THEN Raise("ValueError")
        ELSE PyStr(str(total % 10)))

check_base10_checksum(aic) ==
    With(calc_check_digit(aic), LAMBDA char :
        IF char.t = "raise" THEN char
        ELSE IF aic = <<>> THEN Raise("IndexError")
        ELSE PyBool(<< aic[Len(aic)] >> = char.s))

(* is_base10 with the character loop before the length check *)
is_base10_chars_first(code) ==
    IF \E i \in 1..Len(code) : ~contains(SubSeq(AIC_TABLE, 1, 10), upper(code[i]))
    THEN Raise("InvalidFormat")
    ELSE IF Len(code) # 9 THEN Raise("InvalidLength")
    ELSE IF code[1] # "0" THEN Raise("InvalidFormat")
    ELSE With(check_base10_checksum(code), LAMBDA res :
             IF res.t = "raise" THEN res
             ELSE IF ~res.b THEN Raise("InvalidChecksum")
             ELSE res)

(* is_base10 with the checksum checked before the leading "0" *)
is_base10_checksum_first(code) ==
    IF Len(code) # 9 THEN Raise("InvalidLength")
    ELSE IF \E i \in 1..Len(code) : ~contains(SubSeq(AIC_TABLE, 1, 10), upper(code[i]))
         THEN Raise("InvalidFormat")
    ELSE With(check_base10_checksum(code), LAMBDA res :
             IF res.t = "raise" THEN res
             ELSE IF ~res.b THEN Raise("InvalidChecksum")
             ELSE IF code[1] # "0" THEN Raise("InvalidFormat")
             ELSE res)

is_base10(code) ==
    IF Len(code) # 9 THEN Raise("InvalidLength")
    ELSE IF \E i \in 1..Len(code) : ~contains(SubSeq(AIC_TABLE, 1, 10), upper(code[i]))
         THEN Raise("InvalidFormat")
    ELSE IF code[1] # "0" THEN Raise("InvalidFormat")
    ELSE With(check_base10_checksum(code), LAMBDA res :
             IF res.t = "raise" THEN res
             ELSE IF ~res.b THEN Raise("InvalidChecksum")
             ELSE res)

(* is_base32 returning False for a character outside the table *)
is_base32_returns_false(code) ==
    IF Len(code) # 6 THEN Raise("InvalidLength")
    ELSE IF \E i \in 1..Len(code) : ~contains(AIC_TABLE, upper(code[i]))
         THEN PyBool(FALSE)
    ELSE With(from_base32(code), LAMBDA converted :
             IF converted.t = "raise" THEN converted
             ELSE is_base10(converted.s))

is_base32(code) ==
    IF Len(code) # 6 THEN Raise("InvalidLength")
    ELSE IF \E i \in 1..Len(code) : ~contains(AIC_TABLE, upper(code[i]))
         THEN Raise("InvalidFormat")
    ELSE With(from_base32(code), LAMBDA converted :
             IF converted.t = "raise" THEN converted
             ELSE is_base10(converted.s))

compact(code) ==
    IF code.t # "str" THEN Raise("InvalidFormat")
    ELSE PyStr(strip(upper_str(clean(code.s, {" "}))))

(* validate returning the base32 code it was given *)
validate_unconverted(code) ==
    With(compact(code), LAMBDA c :
        IF c.t = "raise" THEN c
        ELSE IF Len(c.s) = 6
             THEN With(is_base32(c.s), LAMBDA ok :
                      IF ok.t = "raise" THEN ok ELSE c)
             ELSE With(is_base10(c.s), LAMBDA ok :
                      IF ok.t = "raise" THEN ok ELSE c))

validate(code) ==
    With(compact(code), LAMBDA c :
        IF c.t = "raise" THEN c
        ELSE IF Len(c.s) = 6
             THEN With(is_base32(c.s), LAMBDA ok :
                      IF ok.t = "raise" THEN ok ELSE from_base32(c.s))
             ELSE With(is_base10(c.s), LAMBDA ok :
                      IF ok.t = "raise" THEN ok ELSE c))

(* bool(v) of a returned string *)
bool(v) == PyBool(v.s # <<>>)

(* is_valid with "except InvalidFormat" *)
is_valid_format_only(code) ==
    With(validate(code), LAMBDA v :
        IF v.t = "raise"
        THEN IF v.exc = "InvalidFormat" THEN PyBool(FALSE) ELSE v
        ELSE bool(v))

is_valid(code) ==
    With(validate(code), LAMBDA v :
        IF v.t = "raise"
        THEN IF v.exc \in ValidationError THEN PyBool(FALSE) ELSE v
        ELSE bool(v))

---------------------------------------------------------------------------
(* The arguments the functions are called with *)

PayloadStep == 246913

PayloadCount == 60

MaxShort == 3

(* codes in both forms, edited below one character at a time *)
Seeds == { << "0", "0", "0", "0", "0", "0", "0", "0", "0" >>,
           << "0", "0", "0", "3", "0", "7", "0", "5", "2" >>,
           << "0", "4", "8", "9", "7", "5", "3", "1", "8" >>,
           << "0", "9", "9", "9", "9", "9", "9", "9", "3" >>,
           << "0", "0", "9", "C", "V", "D" >>,
           << "1", "G", "Q", "M", "G", "Q" >>,
           << "2", "Z", "C", "S", "7", "T" >> }

EditChars == { "0", "1", "2", "3", "4", "5", "6", "7", "8", "9",
               "B", "Z", "A", "z", "a", " ", "\t", "-", "!" }

ShortChars == { "0", "7", "A", " " }

Base32Sample == { "0", "Z", "x" }

Replaced(s) == { [s EXCEPT ![i] = c] : i \in 1..Len(s), c \in EditChars }

Inserted(s) == { SubSeq(s, 1, i) \o << c >> \o SubSeq(s, i + 1, Len(s)) :
                     i \in 0..Len(s), c \in EditChars }

Deleted(s) == { SubSeq(s, 1, i - 1) \o SubSeq(s, i + 1, Len(s)) : i \in 1..Len(s) }

EditedSeeds == UNION { {s} \cup Replaced(s) \cup Inserted(s) \cup Deleted(s) : s \in Seeds }

(* 8-digit payloads spread over the range, alone and with every last digit *)
Payloads == { zfill(str(k * PayloadStep), 8) : k \in 0..PayloadCount }

PayloadCodes == Payloads \cup { Append(p, AIC_TABLE[d]) : p \in Payloads, d \in 1..10 }

Base32Codes == [1..6 -> Base32Sample]

ShortStrings == UNION { [1..n -> ShortChars] : n \in 0..MaxShort }

Strings == EditedSeeds \cup PayloadCodes \cup Base32Codes \cup ShortStrings

Inputs == { PyStr(s) : s \in Strings } \cup { None, PyInt(5), PyInt(307052), PyInt(-40) }

(* The model's integers are 32 bits wide and Python's are not: a direct    *)
(* call of a converter is made only where the number fits.                 *)
RECURSIVE lstrip_zeros(_)
lstrip_zeros(s) ==
    IF s # <<>> /\ upper(Head(s)) = "0" THEN lstrip_zeros(Tail(s)) ELSE s

FitsBase32(v) == v.t = "str" => Len(lstrip_zeros(v.s)) <= 6

FitsBase10(v) == v.t = "str" => Len(lstrip_zeros(clean(v.s, whitespace \cup {"+", "-"}))) <= 9

---------------------------------------------------------------------------
(* The state: the argument, the function last called on it, its outcome,   *)
(* and the call whose result the argument is (NoCall for an input).        *)

NoCall == [fn |-> "", arg |-> None]

Init ==
    /\ arg \in Inputs
    /\ fn = ""
    /\ out = None
    /\ prev = NoCall

Call(name, result) ==
    /\ fn = ""
    /\ fn' = name
    /\ out' = result
    /\ UNCHANGED << arg, prev >>

CallFromBase32 ==
    /\ FitsBase32(arg)
    /\ Call("from_base32", IF arg.t = "str" THEN from_base32(arg.s) ELSE Raise("TypeError"))

CallToBase32 ==
    /\ FitsBase10(arg)
    /\ Call("to_base32", to_base32(arg))

CallCalcCheckDigit ==
    Call("calc_check_digit", IF arg.t = "str" THEN calc_check_digit(arg.s) ELSE Raise("TypeError"))

CallCheckBase10Checksum ==
    Call("check_base10_checksum",
         IF arg.t = "str" THEN check_base10_checksum(arg.s) ELSE Raise("TypeError"))

CallIsBase10 ==
    Call("is_base10", IF arg.t = "str" THEN is_base10(arg.s) ELSE Raise("TypeError"))

CallIsBase32 ==
    Call("is_base32", IF arg.t = "str" THEN is_base32(arg.s) ELSE Raise("TypeError"))

CallCompact == Call("compact", compact(arg))

CallValidate == Call("validate", validate(arg))

CallIsValid == Call("is_valid", is_valid(arg))

(* the caller passes the string a call returned to the next call *)
Feed ==
    /\ fn # ""
    /\ out.t = "str"
    /\ prev = NoCall
    /\ arg' = out
    /\ prev' = [fn |-> fn, arg |-> arg]
    /\ fn' = ""
    /\ out' = None

Next ==
    \/ CallFromBase32
    \/ CallToBase32
    \/ CallCalcCheckDigit
    \/ CallCheckBase10Checksum
    \/ CallIsBase10
    \/ CallIsBase32
    \/ CallCompact
    \/ CallValidate
    \/ CallIsValid
    \/ Feed

Spec == Init /\ [][Next]_vars

---------------------------------------------------------------------------
(* Vocabulary of the properties *)

DecimalDigits == { AIC_TABLE[i] : i \in 1..10 }

Alphabet == { AIC_TABLE[i] : i \in 1..Len(AIC_TABLE) }

IsDigitString(s) == \A i \in 1..Len(s) : s[i] \in DecimalDigits

IsAlphabetString(s) == \A i \in 1..Len(s) : s[i] \in Alphabet

(* value of a decimal digit, of a base-32 symbol *)
DigitOf(c) == CHOOSE d \in 0..9 : AIC_TABLE[d + 1] = c

SymbolOf(c) == CHOOSE d \in 0..31 : AIC_TABLE[d + 1] = c

(* the number a numeral denotes in the given radix, most significant first *)
RECURSIVE Numeral(_, _, _)
Numeral(s, radix, acc) ==
    IF s = <<>> THEN acc
    ELSE Numeral(Tail(s), radix, acc * radix + SymbolOf(Head(s)))

Fold(p) == (p \div 10) + (p % 10)

(* the check digit of the specification, written out term by term *)
CheckDigitOf(s) ==
    ( Fold(1 * DigitOf(s[1])) + Fold(2 * DigitOf(s[2]))
    + Fold(1 * DigitOf(s[3])) + Fold(2 * DigitOf(s[4]))
    + Fold(1 * DigitOf(s[5])) + Fold(2 * DigitOf(s[6]))
    + Fold(1 * DigitOf(s[7])) + Fold(2 * DigitOf(s[8])) ) % 10

(* a valid base10 code: 9 digits, the first "0", the last the check digit *)
IsCanonical(s) ==
    /\ Len(s) = 9
    /\ IsDigitString(s)
    /\ s[1] = "0"
    /\ DigitOf(s[9]) = CheckDigitOf(s)

IsValidBase10(v) == v.t = "str" /\ IsCanonical(v.s)

HasForeignChar(s) == \E i \in 1..Len(s) : upper(s[i]) \notin Alphabet

Called(name) == fn = name /\ arg.t = "str"

---------------------------------------------------------------------------
(* C1: round trip.  For every valid base10 code c, to_base32(c) is exactly *)
(* 6 characters of the alphabet, and from_base32 of it is c again.         *)
C1_RoundTrip ==
    /\ (Called("to_base32") /\ IsValidBase10(arg))
           => /\ out.t = "str"
              /\ Len(out.s) = 6
              /\ IsAlphabetString(out.s)
    /\ (Called("from_base32") /\ prev.fn = "to_base32" /\ IsValidBase10(prev.arg))
           => out = prev.arg

(* a valid code whose base32 form needs no padding went there and back *)
C1_Witness ==
    /\ Called("from_base32")
    /\ prev.fn = "to_base32"
    /\ IsValidBase10(prev.arg)
    /\ arg.s[1] # "0"
    /\ out = prev.arg

C3_IsValidTotal ==
    fn = "is_valid"
        => /\ out.t = "bool"
           /\ out.b = (validate(arg).t # "raise")
           /\ validate(arg).t = "raise"
                  => validate(arg).exc \in {"InvalidFormat", "InvalidLength", "InvalidChecksum"}

(* is_valid turned each kind of failure of validate into false *)
C3_Witness ==
    /\ fn = "is_valid"
    /\ out = PyBool(FALSE)
    /\ arg.t = "str"
    /\ validate(arg) = Raise("InvalidChecksum")

(* C4 as stated: for every 6-character string over the alphabet            *)
(* from_base32 returns exactly 9 decimal digits.                           *)
C4_Original ==
    (Called("from_base32") /\ Len(arg.s) = 6 /\ IsAlphabetString(arg.s))
        => /\ out.t = "str"
           /\ Len(out.s) = 9
           /\ IsDigitString(out.s)

(* C4 amended: for every 6-character string over the alphabet from_base32  *)
(* returns the decimal digits of the base-32 numeral's value, zero-padded  *)
(* to at least 9 characters: 9 digits when the value is below 10^9 and 10  *)
(* digits when it is 10^9 or more.                                         *)
C4_FromBase32Digits ==
    (Called("from_base32") /\ Len(arg.s) = 6 /\ IsAlphabetString(arg.s))
        => /\ out.t = "str"
           /\ IsDigitString(out.s)
           /\ Numeral(out.s, 10, 0) = Numeral(arg.s, 32, 0)
           /\ Len(out.s) = IF Numeral(arg.s, 32, 0) < 1000000000 THEN 9 ELSE 10

(* a 6-symbol numeral was converted to a zero-padded 9-digit string *)
C4_Witness ==
    /\ Called("from_base32")
    /\ Len(arg.s) = 6
    /\ IsAlphabetString(arg.s)
    /\ Numeral(arg.s, 32, 0) > 32
    /\ out.t = "str"
    /\ Len(out.s) = 9
    /\ out.s[1] = "0"

C6_LengthEnforcement ==
    /\ (Called("is_base10") /\ Len(arg.s) # 9) => out = Raise("InvalidLength")
    /\ (Called("is_base32") /\ Len(arg.s) # 6) => out = Raise("InvalidLength")

(* is_base10 reported the length of a string that also has a bad character *)
C6_Witness ==
    /\ Called("is_base10")
    /\ Len(arg.s) = 10
    /\ ~IsDigitString(arg.s)
    /\ out = Raise("InvalidLength")

(* C7: leading-zero rule.  A string of 9 decimal digits whose first is not *)
(* "0" makes is_base10 fail with InvalidFormat, whether or not its last    *)
(* digit is the check digit.                                               *)
C7_LeadingZero ==
    (Called("is_base10") /\ Len(arg.s) = 9 /\ IsDigitString(arg.s) /\ arg.s[1] # "0")
        => out = Raise("InvalidFormat")

(* is_base10 rejected 9 digits with a correct check digit for their lead *)
C7_Witness ==
    /\ Called("is_base10")
    /\ Len(arg.s) = 9
    /\ IsDigitString(arg.s)
    /\ arg.s[1] # "0"
    /\ DigitOf(arg.s[9]) = CheckDigitOf(arg.s)
    /\ out = Raise("InvalidFormat")

(* C8: for every 6-character string over the alphabet is_base32 and        *)
(* validate never fail with InvalidLength, and they reject every such code *)
(* whose decimal value is 100000000 or more with InvalidFormat.            *)
C8_LengthOnlyForLength ==
    ((Called("is_base32") \/ Called("validate")) /\ Len(arg.s) = 6 /\ IsAlphabetString(arg.s))
        => /\ out # Raise("InvalidLength")
           /\ Numeral(arg.s, 32, 0) >= 100000000 => out = Raise("InvalidFormat")

(* C9: for every string of 8 or 9 decimal digits calc_check_digit returns  *)
(* the one digit (sum of Fold(w_i * d_i) over the first 8 positions) mod   *)
(* 10 with weights 1,2,1,2,1,2,1,2, each folded value in 0..9; a ninth     *)
(* digit does not change the result.                                       *)
C9_CheckDigit ==
    (Called("calc_check_digit") /\ Len(arg.s) \in {8, 9} /\ IsDigitString(arg.s))
        => /\ out = PyStr(<< AIC_TABLE[CheckDigitOf(arg.s) + 1] >>)
           /\ \A i \in 1..8 : Fold(weights[i] * DigitOf(arg.s[i])) \in 0..9
           /\ out = calc_check_digit(SubSeq(arg.s, 1, 8))

(* the check digit of 9 digits with a doubled digit above 4 was computed,  *)
(* and it is not the ninth digit                                           *)
C9_Witness ==
    /\ Called("calc_check_digit")
    /\ Len(arg.s) = 9
    /\ IsDigitString(arg.s)
    /\ DigitOf(arg.s[2]) >= 5
    /\ out.t = "str"
    /\ out.s # << arg.s[9] >>

(* C10: single-digit error detection.  Replacing any one digit of a code   *)
(* is_base10 accepts by a different digit gives a string it rejects.       *)
C10_SingleDigitError ==
    (Called("is_base10") /\ out = PyBool(TRUE))
        => \A i \in 1..9 : \A d \in DecimalDigits \ {arg.s[i]} :
               is_base10([arg.s EXCEPT ![i] = d]).t = "raise"

(* is_base10 accepted a code with doubled digits on both sides of 5 *)
C10_Witness ==
    /\ Called("is_base10")
    /\ out = PyBool(TRUE)
    /\ DigitOf(arg.s[2]) >= 5
    /\ DigitOf(arg.s[4]) < 5
    /\ DigitOf(arg.s[4]) > 0

===========================================================================
